---- MODULE Spec2Model ----
(***************************************************************************)
(* Model of EICRootWriter (src/services/io/podio/EICRootWriter.cc): the    *)
(* per-event writer that copies factory objects into an EICEventStore,     *)
(* creates TTree branches lazily with backfill, rebinds branch addresses   *)
(* and fills the events tree.                                              *)
(***************************************************************************)
EXTENDS Integers, Sequences, FiniteSets, TLC

\* ------------------------------------------------------------------ bounds
MaxCalls == 2        \* number of Process calls in one job
MaxRecs == 2         \* largest number of objects one factory holds

\* the worker threads that run Process
Threads == 1..2

\* ------------------------------------------------- producers (JFactory)
\* A factory as Process sees it: its tag, GetObjectName(), GetObjectType()
\* and the edm4hep type T the generated glue dispatches it to ("none" when
\* the data class has no edm4hep mapping).
FacCluster == [tag |-> "", objName |-> "Cluster", objType |-> "Cluster", T |-> "Cluster"]
FacMerged == [tag |-> "merged", objName |-> "Cluster", objType |-> "Cluster", T |-> "Cluster"]
FacSpecial == [tag |-> "merged", objName |-> "SpecialCluster", objType |-> "SpecialCluster", T |-> "Cluster"]
FacOther == [tag |-> "", objName |-> "EICEventStore", objType |-> "EICEventStore", T |-> "none"]

\* event->GetAllFactories(), in iteration order
AllFactories == <<FacCluster, FacMerged, FacSpecial, FacOther>>

NFac == Len(AllFactories)

\* factories that hold objects in some events and none in others; the
\* first factory holds objects in every event
Optional == {2, 3}

\* every column name that can be configured or derived
Names == {"Cluster", "merged", "SpecialCluster"}

\* names that the include / exclude parameters are drawn from
IncludeNames == {"merged"}
ExcludeNames == {"merged"}

\* factories whose conversion may fail
Fallible == {2}

\* C::getValueTypeName() of the collection class of T
ValueTypeName(T) ==
    IF T = "Cluster" THEN "edm4hep::Cluster"
    ELSE IF T = "Hit" THEN "edm4hep::CalorimeterHit"
    ELSE "unknown"

\* ----------------------------------------------------------- the state
VARIABLES
    m_OUTPUT_INCLUDE_COLLECTIONS,  \* set of names
    m_OUTPUT_EXCLUDE_COLLECTIONS,  \* set of names
    events,                        \* the JEvents seen so far
    tree,                          \* the "events" TTree
    m_datatree,                    \* pointer to it: "events" or "nullptr"
    evtMDentries,                  \* entries of the evt_metadata TTree
    m_evtMDtree,                   \* pointer to it: "evt_metadata" or "nullptr"
    auxentries,                    \* entries of metadata, col_metadata, run_metadata
    m_collection_branches,         \* map name -> className
    m_collectionIDtable,           \* sequence of names, ID = position
    m_collectionInfo,              \* sequence of <<id, type, isSubset>>
    m_mutex,                       \* 0 or the thread that holds it
    pc,                            \* per thread: position in Process
    ev,                            \* per thread: index of the event in hand
    store,                         \* per thread: local EICEventStore (m_datavectors)
    fi,                            \* per thread: index in the factory loop
    collection_name,               \* per thread: name derived by the last PutPODIODataT
    ret,                           \* per thread: outcome of the last PutPODIOData
    ncalls,                        \* Process calls started
    crashed                        \* the process has died

cfgvars == <<m_OUTPUT_INCLUDE_COLLECTIONS, m_OUTPUT_EXCLUDE_COLLECTIONS>>
treevars == <<tree, m_datatree, evtMDentries, m_evtMDtree, auxentries>>
tablevars == <<m_collection_branches, m_collectionIDtable, m_collectionInfo>>
localvars == <<pc, ev, store, fi, collection_name, ret>>
vars == <<cfgvars, events, treevars, tablevars, m_mutex, localvars, ncalls, crashed>>

\* ----------------------------------------------------- events and objects
\* Position of an optional factory in AllFactories is its key.
\* The objects a factory holds in event e: a function of the event and the
\* factory, so that re-processing an event sees the same producers.
NumObjects(e, f, present) ==
    IF f = NFac THEN 1
    ELSE IF f \in present \/ f \notin Optional THEN ((e + f) % MaxRecs) + 1 ELSE 0

\* fac->GetAs<T>(): the high-level objects, each wrapping its POD data
GetAs(e, f, present) ==
    [i \in 1..NumObjects(e, f, present) |-> [pod |-> 100 * e + 10 * f + i]]

\* clone + prepareForWrite + getBuffers: the vector of POD data
PrepareForWrite(objs) == [i \in 1..Len(objs) |-> objs[i].pod]

\* A class name is kept as the sequence of its tokens, so that Finish can
\* look for '<' and '>' in it. A data vector's class name has the form
\* "vector<edm4hep::EventHeader>" (comment at line 427-428).
VectorOf(valueTypeName) == <<"vector", "<", valueTypeName, ">">>

\* A data vector: name, className, the std::vector it owns and its
\* address (id). The std::vector is kept as what its buffer was filled with
\* (data) and the element type it was filled as (holds): a vector that was
\* swapped through a pointer to a vector of another element type owns a
\* buffer of that other type.
\* DataVectorT<T>(name, className): a new data vector with an empty vector
DataVectorT(name, className, id) ==
    [name |-> name, className |-> VectorOf(className), data |-> <<>>,
     holds |-> className, id |-> id]

\* what the event source attached to an event: no store, a store with a
\* collection of clusters, a store with a collection of calorimeter hits
StoreKinds == {"none", "input", "hits"}

\* the edm4hep type of the collection an attached store holds
InputType(kind) == IF kind = "hits" THEN "Hit" ELSE "Cluster"

\* The store the event source attached to an event: one collection read
\* from the input file, under the name "merged".
InputStore(e, kind) ==
    <<[name |-> "merged", className |-> VectorOf(ValueTypeName(InputType(kind))),
       data |-> <<7>>, holds |-> ValueTypeName(InputType(kind)),
       id |-> <<e, 0, "merged">>]>>

\* A JEvent: which optional factories hold objects, which factory's
\* conversion fails (0: none), how often Process has begun on it, what the
\* event source attached, and the EICEventStore it carries
\* (GetSingle<EICEventStore>), if any.
NewEvent(e, present, bad, kind) ==
    [present |-> present, bad |-> bad, visits |-> 0, kind |-> kind,
     es |-> [has |-> kind # "none",
             dvs |-> IF kind # "none" THEN InputStore(e, kind) ELSE <<>>]]

\* ------------------------------------------------------------ helpers
Min(S) == CHOOSE x \in S : \A y \in S : x <= y

StoreNames(st) == {st[i].name : i \in 1..Len(st)}

Range(sq) == {sq[i] : i \in 1..Len(sq)}

\* the return value of PutPODIOData when the call threw instead
Thrown == "<exception>"

\* marks a loop iteration that did not call PutPODIOData
NotCalled == "<not called>"

\* variant: a non-empty tag always names the collection
DeriveCollectionName_TagWins(T, fac) ==
    IF fac.tag = "" THEN fac.objName ELSE fac.tag

\* --------------------------------------------------- DeriveCollectionName
DeriveCollectionName(T, fac) ==
    IF fac.tag = "" THEN fac.objName
    ELSE IF T = fac.objType THEN fac.tag
    ELSE fac.objName

\* -------------------------------------------------------- PutPODIODataT
GetExcludeCollections == m_OUTPUT_EXCLUDE_COLLECTIONS

\* line 96-97: bail early for an excluded collection
BailExcluded(name) ==
    LET exclude_collections == GetExcludeCollections
    IN  name \in exclude_collections

\* line 100-101: bail early for a collection that is not included; the
\* set consulted is the one GetExcludeCollections returns
BailNotIncluded(name) ==
    LET include_collections == GetExcludeCollections
    IN  include_collections # {} /\ name \notin include_collections

\* line 104-110: index of the first data vector of that name, 0 if none
FindDataVector(st, name) ==
    LET found == {i \in 1..Len(st) : st[i].name = name}
    IN  IF found = {} THEN 0 ELSE Min(found)

\* variant: a data vector is created without looking for an existing one
FindOrCreate_Always(st, name, className, id) ==
    Append(st, DataVectorT(name, className, id))

\* variant: a data vector found under the name is replaced by a new one
FindOrCreate_Replace(st, name, className, id) ==
    IF FindDataVector(st, name) = 0
    THEN Append(st, DataVectorT(name, className, id))
    ELSE [st EXCEPT ![FindDataVector(st, name)] = DataVectorT(name, className, id)]

\* line 111-115: create the data vector when there is none
FindOrCreate(st, name, className, id) ==
    IF FindDataVector(st, name) = 0
    THEN Append(st, DataVectorT(name, className, id))
    ELSE st

\* line 107 and 140-141: databuffer is the address of the data vector's
\* std::vector, cast to std::vector<T>* whatever its element type is, and
\* vecptr->swap(*databuffer) exchanges the buffers: the data vector now
\* owns the buffer of the temporary collection, newdata as elements of the
\* caller's type (className is the caller's value type name)
SwapBuffer(st, idx, newdata, className) ==
    [st EXCEPT ![idx].data = newdata, ![idx].holds = className]

\* The whole routine. objs are the objects GetAs<T> yields, bad tells that
\* the conversion of these objects throws, id is the address a newly
\* allocated data vector gets.
PutPODIODataT(T, fac, objs, bad, st, id) ==
    LET className == ValueTypeName(T)
        name == DeriveCollectionName(T, fac)
        st1 == FindOrCreate(st, name, className, id)
        idx == FindDataVector(st1, name)
    IN  IF BailExcluded(name) THEN [store |-> st, ret |-> "", name |-> name]
        ELSE IF BailNotIncluded(name) THEN [store |-> st, ret |-> "", name |-> name]
        ELSE IF bad THEN [store |-> st1, ret |-> Thrown, name |-> name]
        ELSE [store |-> SwapBuffer(st1, idx, PrepareForWrite(objs), className),
              ret |-> name, name |-> name]

\* The generated dispatcher: a factory without edm4hep mapping yields "".
PutPODIOData(fac, objs, bad, st, id) ==
    IF fac.T = "none" THEN [store |-> st, ret |-> "", name |-> ""]
    ELSE PutPODIODataT(fac.T, fac, objs, bad, st, id)

\* EICEventStore::Swap: the two stores exchange their data vectors
Swap(a, b) == [mine |-> b, other |-> a]

\* --------------------------------------------------------- the events TTree
\* A branch: its class name, the rows written so far (each row the content
\* of a vector) and the address of the data vector it reads at Fill.
NewBranch(className, addr) == [className |-> className, rows |-> <<>>, addr |-> addr]

EmptyTree == [entries |-> 0, branches |-> <<>>]

BranchNames(tr) == DOMAIN tr.branches

\* TTree::Branch(name, className, address)
Branch(tr, name, className, addr) ==
    [tr EXCEPT !.branches = (name :> NewBranch(className, addr)) @@ @]

\* TBranch::SetAddress / TTree::SetBranchAddress
SetBranchAddress(tr, name, addr) ==
    [tr EXCEPT !.branches[name].addr = addr]

\* MakeDataVector(name, className): an empty vector of the class,
\* className being the data vector's class name
MakeDataVector(name, className) ==
    [name |-> name, className |-> className, data |-> <<>>,
     holds |-> className[3], id |-> <<0, 0, "tmpdv">>]

\* variant: the backfill fills every branch of the tree, not the new one
Backfill_WholeTree(tr, dv) ==
    LET tmpdv == MakeDataVector(dv.name, dv.className)
        tr1 == SetBranchAddress(tr, dv.name, tmpdv.id)
        Nentries == tr1.entries
    IN  [tr1 EXCEPT !.branches =
            [b \in DOMAIN @ |->
                [@[b] EXCEPT !.rows = @ \o [i \in 1..Nentries |-> tmpdv.data]]]]

\* line 266-269: point the branch at the empty temporary and fill it once
\* for each entry the tree already has
Backfill(tr, dv) ==
    LET tmpdv == MakeDataVector(dv.name, dv.className)
        tr1 == SetBranchAddress(tr, dv.name, tmpdv.id)
        Nentries == tr1.entries
    IN  [tr1 EXCEPT !.branches[dv.name].rows =
            @ \o [i \in 1..Nentries |-> tmpdv.data]]

\* variant: the branch is created without the backfill
CreateBranch_NoBackfill(w, dv) ==
    [w EXCEPT !.tree = Branch(w.tree, dv.name, dv.className, dv.id),
              !.cb = (dv.name :> dv.className) @@ w.cb]

\* EICRootWriter::CreateBranch on the writer state w = [tree, cb, idt]
CreateBranch(w, dv) ==
    LET tr1 == Branch(w.tree, dv.name, dv.className, dv.id)
        cb1 == (dv.name :> dv.className) @@ w.cb
        tr2 == Backfill(tr1, dv)
        tr3 == SetBranchAddress(tr2, dv.name, dv.id)
    IN  [w EXCEPT !.tree = tr3, !.cb = cb1]

\* variant: the exclude set is not consulted
Ignored_NoExclude(name) ==
    m_OUTPUT_INCLUDE_COLLECTIONS # {} /\ name \notin m_OUTPUT_INCLUDE_COLLECTIONS

\* line 298 and 301: the collections ResetBranches ignores
Ignored(name) ==
    \/ name \in m_OUTPUT_EXCLUDE_COLLECTIONS
    \/ m_OUTPUT_INCLUDE_COLLECTIONS # {} /\ name \notin m_OUTPUT_INCLUDE_COLLECTIONS

\* variant: the name is added without asking whether it is present
AddCollectionID_Always(idt, name) == Append(idt, name)

\* line 312: m_collectionIDtable.present / add
AddCollectionID(idt, name) ==
    IF name \in Range(idt) THEN idt ELSE Append(idt, name)

\* collectionID(name): position in the table
CollectionID(idt, name) == Min({i \in 1..Len(idt) : idt[i] = name})

\* variant: the name is registered before the filters are looked at
ResetOne_RegisterFirst(w, dv) ==
    LET w0 == [w EXCEPT !.idt = AddCollectionID(w.idt, dv.name)]
    IN  IF Ignored(dv.name) THEN w0
        ELSE LET w1 == IF dv.name \notin DOMAIN w0.cb THEN CreateBranch(w0, dv) ELSE w0
             IN  [w1 EXCEPT !.tree = SetBranchAddress(w1.tree, dv.name, dv.id)]

\* one iteration of the loop of ResetBranches
ResetOne(w, dv) ==
    IF Ignored(dv.name) THEN w
    ELSE LET w1 == IF dv.name \notin DOMAIN w.cb THEN CreateBranch(w, dv) ELSE w
         IN  [w1 EXCEPT !.tree = SetBranchAddress(w1.tree, dv.name, dv.id),
                        !.idt = AddCollectionID(w1.idt, dv.name)]

RECURSIVE ResetFrom(_, _, _)
ResetFrom(w, st, i) ==
    IF i > Len(st) THEN w ELSE ResetFrom(ResetOne(w, st[i]), st, i + 1)

\* EICRootWriter::ResetBranches(store)
ResetBranches(w, st) == ResetFrom(w, st, 1)

\* ------------------------------------------------------------ the heap
\* Data vectors that are alive: those of the threads' local stores and of
\* the stores the events carry. A local store deletes its vectors when it
\* goes out of scope.
LiveVectors ==
    UNION {Range(store[t]) : t \in Threads}
        \cup UNION {Range(events[e].es.dvs) : e \in 1..Len(events)}

IsLive(addr) == \E dv \in LiveVectors : dv.id = addr

VectorAt(addr) == CHOOSE dv \in LiveVectors : dv.id = addr

Deref(addr) == VectorAt(addr).data

Dangling(tr) == {b \in BranchNames(tr) : ~IsLive(tr.branches[b].addr)}

\* The branches that read their vector as a vector of another element type
\* than the one its buffer was filled as: the branch streams the vector as
\* its own class (the template parameter of the branch's class name). An
\* empty vector has no buffer and reads as empty under every type.
Misread(tr) ==
    {b \in BranchNames(tr) \ Dangling(tr) :
        LET dv == VectorAt(tr.branches[b].addr)
        IN  dv.data # <<>> /\ dv.holds # tr.branches[b].className[3]}

\* what a read through a dangling address may yield
GarbagePod == 666
Garbage == {<<>>, <<GarbagePod>>}

\* What the branches of the tree may read at Fill, for those that read
\* freed memory or a buffer of another element type: any content. Where
\* the two element types have the same layout a misread buffer reads as
\* what was written.
Reads(tr) ==
    [b \in Dangling(tr) \cup Misread(tr) |->
        IF b \in Dangling(tr) THEN Garbage
        ELSE Garbage \cup {Deref(tr.branches[b].addr)}]

\* the choices of one content per such branch
ReadChoices(tr) ==
    {g \in [DOMAIN Reads(tr) -> UNION {Reads(tr)[b] : b \in DOMAIN Reads(tr)}] :
        \A b \in DOMAIN g : g[b] \in Reads(tr)[b]}

\* TTree::Fill: every branch appends the vector its address points at;
\* g gives what the dangling ones read
TreeFill(tr, g) ==
    [entries |-> tr.entries + 1,
     branches |-> [b \in BranchNames(tr) |->
        [tr.branches[b] EXCEPT !.rows =
            Append(@, IF b \in DOMAIN g THEN g[b] ELSE Deref(tr.branches[b].addr))]]]

\* ------------------------------------------------------------------ Init
\* the state after EICRootWriter::Init(): the filter sets parsed from the
\* parameters, the trees created and empty
Init ==
    /\ m_OUTPUT_INCLUDE_COLLECTIONS \in SUBSET IncludeNames
    /\ m_OUTPUT_EXCLUDE_COLLECTIONS \in SUBSET ExcludeNames
    /\ events = <<>>
    /\ tree = EmptyTree
    /\ m_datatree = "events"
    /\ evtMDentries = 0
    /\ m_evtMDtree = "evt_metadata"
    /\ auxentries = [metadata |-> 0, col_metadata |-> 0, run_metadata |-> 0]
    /\ m_collection_branches = <<>>
    /\ m_collectionIDtable = <<>>
    /\ m_collectionInfo = <<>>
    /\ m_mutex = 0
    /\ pc = [t \in Threads |-> "idle"]
    /\ ev = [t \in Threads |-> 0]
    /\ store = [t \in Threads |-> <<>>]
    /\ fi = [t \in Threads |-> 0]
    /\ collection_name = [t \in Threads |-> ""]
    /\ ret = [t \in Threads |-> NotCalled]
    /\ ncalls = 0
    /\ crashed = FALSE

\* --------------------------------------------------------------- Process
\* line 357-364: the local store, and the swap with the event's store
BeginProcess(t, e, evs) ==
    LET es == evs[e].es
        sw == Swap(<<>>, es.dvs)
    IN  /\ events' = [evs EXCEPT ![e].visits = @ + 1,
                                 ![e].es.dvs = IF es.has THEN sw.other ELSE @]
        /\ store' = [store EXCEPT ![t] = IF es.has THEN sw.mine ELSE <<>>]
        /\ ev' = [ev EXCEPT ![t] = e]
        /\ fi' = [fi EXCEPT ![t] = 1]
        /\ pc' = [pc EXCEPT ![t] = "loop"]
        /\ ret' = [ret EXCEPT ![t] = NotCalled]
        /\ collection_name' = [collection_name EXCEPT ![t] = ""]
        /\ ncalls' = ncalls + 1
        /\ UNCHANGED <<cfgvars, treevars, tablevars, m_mutex, crashed>>

CanBegin(t) ==
    /\ ~crashed
    /\ pc[t] = "idle"
    /\ ncalls < MaxCalls

\* Process is called with an event the source has just produced
ProcessNew(t) ==
    /\ CanBegin(t)
    /\ \E present \in SUBSET Optional, kind \in StoreKinds :
         \E bad \in {0} \cup (present \cap Fallible) :
            BeginProcess(t, Len(events) + 1,
                         Append(events, NewEvent(Len(events) + 1, present, bad, kind)))

\* Process is called again with an event it has seen before
ProcessAgain(t) ==
    /\ CanBegin(t)
    /\ \E e \in 1..Len(events) :
         /\ \A u \in Threads : pc[u] # "idle" => ev[u] # e
         /\ BeginProcess(t, e, events)

\* variant: an exception leaves the loop and the rest of Process
PutStep_AbortOnThrow(t) ==
    /\ ~crashed
    /\ pc[t] = "loop"
    /\ LET e == ev[t]
           f == fi[t]
           fac == AllFactories[f]
           present == events[e].present
           r == PutPODIOData(fac, GetAs(e, f, present), events[e].bad = f,
                             store[t], <<e, events[e].visits, DeriveCollectionName(fac.T, fac)>>)
           called == NumObjects(e, f, present) # 0
       IN  /\ IF called
              THEN /\ store' = [store EXCEPT ![t] = r.store]
                   /\ ret' = [ret EXCEPT ![t] = r.ret]
                   /\ collection_name' = [collection_name EXCEPT ![t] = r.name]
              ELSE /\ ret' = [ret EXCEPT ![t] = NotCalled]
                   /\ UNCHANGED <<store, collection_name>>
           /\ pc' = [pc EXCEPT ![t] = IF called /\ r.ret = Thrown THEN "swap"
                                      ELSE IF fi[t] = NFac THEN "lock" ELSE "loop"]
    /\ fi' = [fi EXCEPT ![t] = @ + 1]
    /\ UNCHANGED <<cfgvars, events, treevars, tablevars, m_mutex, ev, ncalls, crashed>>

\* line 367-382: one iteration of the loop over the factories
PutStep(t) ==
    /\ ~crashed
    /\ pc[t] = "loop"
    /\ LET e == ev[t]
           f == fi[t]
           fac == AllFactories[f]
           present == events[e].present
           r == PutPODIOData(fac, GetAs(e, f, present), events[e].bad = f,
                             store[t], <<e, events[e].visits, DeriveCollectionName(fac.T, fac)>>)
       IN  IF NumObjects(e, f, present) # 0
           THEN /\ store' = [store EXCEPT ![t] = r.store]
                /\ ret' = [ret EXCEPT ![t] = r.ret]
                /\ collection_name' = [collection_name EXCEPT ![t] = r.name]
           ELSE /\ ret' = [ret EXCEPT ![t] = NotCalled]
                /\ UNCHANGED <<store, collection_name>>
    /\ fi' = [fi EXCEPT ![t] = @ + 1]
    /\ pc' = [pc EXCEPT ![t] = IF fi[t] = NFac THEN "lock" ELSE "loop"]
    /\ UNCHANGED <<cfgvars, events, treevars, tablevars, m_mutex, ev, ncalls, crashed>>

\* variant: the thread goes on without waiting for the mutex
Lock_NoWait(t) ==
    /\ ~crashed
    /\ pc[t] = "lock"
    /\ m_mutex' = t
    /\ pc' = [pc EXCEPT ![t] = "reset"]
    /\ UNCHANGED <<cfgvars, events, treevars, tablevars, ev, store, fi,
                   collection_name, ret, ncalls, crashed>>

\* line 386: std::lock_guard<std::mutex> lock(m_mutex)
Lock(t) ==
    /\ ~crashed
    /\ pc[t] = "lock"
    /\ m_mutex = 0
    /\ m_mutex' = t
    /\ pc' = [pc EXCEPT ![t] = "reset"]
    /\ UNCHANGED <<cfgvars, events, treevars, tablevars, ev, store, fi,
                   collection_name, ret, ncalls, crashed>>

\* the data vectors for which ResetBranches calls through m_datatree
\* (line 231 or line 309)
UsesDataTree(st) == {i \in 1..Len(st) : ~Ignored(st[i].name)}

\* line 389: ResetBranches( store ). After Finish m_datatree is nullptr and
\* the first data vector that is not ignored makes ResetBranches call
\* m_datatree->Branch or m_datatree->SetBranchAddress, a virtual call
\* through the null pointer: the process dies.
ResetStep(t) ==
    /\ ~crashed
    /\ pc[t] = "reset"
    /\ IF m_datatree = "nullptr" /\ UsesDataTree(store[t]) # {}
       THEN /\ crashed' = TRUE
            /\ UNCHANGED <<tree, m_collection_branches, m_collectionIDtable, pc>>
       ELSE /\ LET w == ResetBranches([tree |-> tree, cb |-> m_collection_branches,
                                       idt |-> m_collectionIDtable], store[t])
               IN  /\ tree' = w.tree
                   /\ m_collection_branches' = w.cb
                   /\ m_collectionIDtable' = w.idt
            /\ pc' = [pc EXCEPT ![t] = "fill"]
            /\ UNCHANGED crashed
    /\ UNCHANGED <<cfgvars, events, m_datatree, evtMDentries, m_evtMDtree, auxentries,
                   m_collectionInfo, m_mutex, ev, store, fi, collection_name, ret,
                   ncalls>>

\* line 392-393: m_datatree->Fill() and m_evtMDtree->Fill(). A branch whose
\* address is dangling reads freed memory, a branch bound to a vector that
\* owns a buffer of another element type reads it with the wrong element
\* size: any content, or the process dies.
FillStep(t) ==
    /\ ~crashed
    /\ pc[t] = "fill"
    /\ \/ /\ \E g \in ReadChoices(tree) :
                tree' = IF m_datatree # "nullptr" THEN TreeFill(tree, g) ELSE tree
          /\ evtMDentries' = IF m_evtMDtree # "nullptr" THEN evtMDentries + 1 ELSE evtMDentries
          /\ pc' = [pc EXCEPT ![t] = "swap"]
          /\ UNCHANGED crashed
       \/ /\ m_datatree # "nullptr"
          /\ Dangling(tree) \cup Misread(tree) # {}
          /\ crashed' = TRUE
          /\ UNCHANGED <<tree, evtMDentries, pc>>
    /\ UNCHANGED <<cfgvars, events, m_datatree, m_evtMDtree, auxentries, tablevars,
                   m_mutex, ev, store, fi, collection_name, ret, ncalls>>

\* variant: the contents are not swapped back
SwapBack_Skip(t) ==
    /\ ~crashed
    /\ pc[t] = "swap"
    /\ pc' = [pc EXCEPT ![t] = "ret"]
    /\ UNCHANGED <<cfgvars, events, treevars, tablevars, m_mutex, ev, store, fi,
                   collection_name, ret, ncalls, crashed>>

\* line 399: swap the contents back into the event's store
SwapBack(t) ==
    /\ ~crashed
    /\ pc[t] = "swap"
    /\ LET e == ev[t]
           es == events[e].es
           sw == Swap(store[t], es.dvs)
       IN  IF es.has
           THEN /\ store' = [store EXCEPT ![t] = sw.mine]
                /\ events' = [events EXCEPT ![e].es.dvs = sw.other]
           ELSE UNCHANGED <<store, events>>
    /\ pc' = [pc EXCEPT ![t] = "ret"]
    /\ UNCHANGED <<cfgvars, treevars, tablevars, m_mutex, ev, fi, collection_name,
                   ret, ncalls, crashed>>

\* line 400: the locals are destroyed in reverse order of declaration;
\* first the lock guard of line 386, which releases the mutex
Return(t) ==
    /\ ~crashed
    /\ pc[t] = "ret"
    /\ m_mutex' = 0
    /\ pc' = [pc EXCEPT ![t] = "destroy"]
    /\ UNCHANGED <<cfgvars, events, treevars, tablevars, ev, store, fi,
                   collection_name, ret, ncalls, crashed>>

\* line 400: then the local store of line 357, which deletes the data
\* vectors it holds
DestroyStore(t) ==
    /\ ~crashed
    /\ pc[t] = "destroy"
    /\ store' = [store EXCEPT ![t] = <<>>]
    /\ pc' = [pc EXCEPT ![t] = "idle"]
    /\ UNCHANGED <<cfgvars, events, treevars, tablevars, m_mutex, ev, fi,
                   collection_name, ret, ncalls, crashed>>

\* ---------------------------------------------------------------- Finish
\* std::string::npos
npos == 0 - 1

\* className.find_first_of("<") and find_last_of(">"), as token positions
FindFirstOf(className, c) ==
    LET at == {i \in 1..Len(className) : className[i] = c}
    IN  IF at = {} THEN npos ELSE Min(at)

FindLastOf(className, c) ==
    LET at == {i \in 1..Len(className) : className[i] = c}
    IN  IF at = {} THEN npos ELSE CHOOSE i \in at : \A j \in at : j <= i

\* variant: the whole class name is taken, not the template parameter
CollType_Whole(className) == className \o <<"Collection">>

\* line 433: className.substr(start_pos+1, end_pos-start_pos-1) + "Collection"
\* The length end_pos-start_pos-1 is a size_t: when the last '>' comes
\* before the first '<' it wraps around to a huge value and substr yields
\* the rest of the string.
CollType(className) ==
    LET start_pos == FindFirstOf(className, "<")
        end_pos == FindLastOf(className, ">")
        len == end_pos - start_pos - 1
        last == IF len < 0 THEN Len(className) ELSE start_pos + len
    IN  SubSeq(className, start_pos + 1, last) \o <<"Collection">>

\* line 432: the class name has no '<' or no '>'
NoTemplate(className) ==
    FindFirstOf(className, "<") = npos \/ FindLastOf(className, ">") = npos

\* line 423-438: the CollectionTypeInfo table
RECURSIVE CollectionInfoFrom(_, _, _)
CollectionInfoFrom(idt, cb, i) ==
    IF i > Len(idt) THEN <<>>
    ELSE IF idt[i] \notin DOMAIN cb THEN CollectionInfoFrom(idt, cb, i + 1)
    ELSE IF NoTemplate(cb[idt[i]]) THEN CollectionInfoFrom(idt, cb, i + 1)
    ELSE <<<<CollectionID(idt, idt[i]), CollType(cb[idt[i]]), FALSE>>>>
            \o CollectionInfoFrom(idt, cb, i + 1)

\* variant: the run_metadata tree is not filled
Finish_SkipRunMD ==
    /\ ~crashed
    /\ m_datatree # "nullptr"
    /\ \A t \in Threads : pc[t] = "idle"
    /\ m_collectionInfo' = m_collectionInfo
            \o CollectionInfoFrom(m_collectionIDtable, m_collection_branches, 1)
    /\ auxentries' = [metadata |-> auxentries.metadata + 1,
                      col_metadata |-> auxentries.col_metadata + 1,
                      run_metadata |-> auxentries.run_metadata]
    /\ m_datatree' = "nullptr"
    /\ m_evtMDtree' = "nullptr"
    /\ UNCHANGED <<cfgvars, events, tree, evtMDentries, m_collection_branches,
                   m_collectionIDtable, m_mutex, localvars, ncalls, crashed>>

\* EICRootWriter::Finish, called once at the end of the job
Finish ==
    /\ ~crashed
    /\ m_datatree # "nullptr"
    /\ \A t \in Threads : pc[t] = "idle"
    /\ m_collectionInfo' = m_collectionInfo
            \o CollectionInfoFrom(m_collectionIDtable, m_collection_branches, 1)
    /\ auxentries' = [metadata |-> auxentries.metadata + 1,
                      col_metadata |-> auxentries.col_metadata + 1,
                      run_metadata |-> auxentries.run_metadata + 1]
    /\ m_datatree' = "nullptr"
    /\ m_evtMDtree' = "nullptr"
    /\ UNCHANGED <<cfgvars, events, tree, evtMDentries, m_collection_branches,
                   m_collectionIDtable, m_mutex, localvars, ncalls, crashed>>

\* the steps of thread t
Step(t) ==
    \/ ProcessNew(t)
    \/ ProcessAgain(t)
    \/ PutStep(t)
    \/ Lock(t)
    \/ ResetStep(t)
    \/ FillStep(t)
    \/ SwapBack(t)
    \/ Return(t)
    \/ DestroyStore(t)

\* the framework hands the events to the processor one after the other
Next == Step(1) \/ Finish

Spec == Init /\ [][Next]_vars

\* the framework runs Process on several worker threads at once
NextMT == (\E t \in Threads : Step(t)) \/ Finish

SpecMT == Init /\ [][NextMT]_vars

TypeOK ==
    /\ m_mutex \in {0} \cup Threads
    /\ ncalls \in 0..MaxCalls
    /\ \A t \in Threads : pc[t] \in {"idle", "loop", "lock", "reset", "fill", "swap", "ret", "destroy"}

\* ======================================================== the properties
Empties(k) == [i \in 1..k |-> <<>>]

\* the filters as the parameters document them
Filtered(name) ==
    \/ name \in m_OUTPUT_EXCLUDE_COLLECTIONS
    \/ m_OUTPUT_INCLUDE_COLLECTIONS # {} /\ name \notin m_OUTPUT_INCLUDE_COLLECTIONS

\* C1: every physical column created so far (every key of
\* m_collection_branches) has exactly as many flushed rows as the events
\* tree has entries, whatever the event in which it was created; this holds
\* after every Process call and at Finish.
C1_RowAlignment ==
    \A n \in DOMAIN m_collection_branches :
        /\ n \in BranchNames(tree)
        /\ Len(tree.branches[n].rows) = tree.entries

\* Finish has run after MaxCalls events; one column was created by the
\* first event, one by the second and one by the last.
C1_Witness ==
    /\ m_datatree = "nullptr"
    /\ tree.entries = MaxCalls
    /\ \E n, m, l \in DOMAIN m_collection_branches :
         /\ tree.branches[n].rows[1] # <<>>
         /\ tree.branches[m].rows[1] = <<>>
         /\ tree.branches[m].rows[2] # <<>>
         /\ tree.branches[l].rows[MaxCalls - 1] = <<>>
         /\ tree.branches[l].addr[1] = MaxCalls
         /\ Len(tree.branches[l].rows) = MaxCalls

\* C2: a column first observed when k rows are flushed gets exactly k empty
\* rows from CreateBranch, and the flush of that event appends one row equal
\* to the event's data vector, k + 1 rows in total.
C2_BackfillThenRow ==
    [][\A t \in Threads :
        /\ (pc[t] = "reset" /\ pc'[t] = "fill") =>
              \A n \in BranchNames(tree') \ BranchNames(tree) :
                  /\ tree'.branches[n].rows = Empties(tree.entries)
                  /\ \E dv \in Range(store[t]) :
                        dv.name = n /\ tree'.branches[n].addr = dv.id
        /\ (pc[t] = "fill" /\ pc'[t] = "swap") =>
              \A dv \in Range(store[t]) :
                  (/\ dv.name \in BranchNames(tree)
                   /\ tree.branches[dv.name].addr = dv.id
                   /\ tree.branches[dv.name].rows = Empties(tree.entries))
                  => /\ Len(tree'.branches[dv.name].rows) = tree.entries + 1
                     /\ SubSeq(tree'.branches[dv.name].rows, 1, tree.entries)
                            = Empties(tree.entries)
                     /\ tree'.branches[dv.name].rows[tree.entries + 1] = dv.data
    ]_vars

\* C3: after ResetBranches and before the flush, every physical column ever
\* created has its address bound to a data vector of the current event's
\* store.
C3_RowPointerValid ==
    \A t \in Threads :
        pc[t] = "fill" =>
            \A n \in BranchNames(tree) :
                \E dv \in Range(store[t]) : tree.branches[n].addr = dv.id

\* C4: no physical column is created, bound or registered for a name that
\* is excluded or, with a non-empty include set, not included.
C4_FilteredNeverWritten ==
    \A n \in BranchNames(tree) \cup DOMAIN m_collection_branches
                \cup Range(m_collectionIDtable) :
        ~Filtered(n)

\* ResetBranches has run on a store that holds a data vector whose name is
\* both included and excluded, and on one that holds a name not included.
C4_Witness ==
    \E t \in Threads :
        /\ pc[t] = "fill"
        /\ \E dv \in Range(store[t]) :
             /\ dv.name \in m_OUTPUT_EXCLUDE_COLLECTIONS
             /\ dv.name \in m_OUTPUT_INCLUDE_COLLECTIONS
        /\ tree.entries = 1

\* the POD data of the objects factory f holds in event e
Pods(e, f) == PrepareForWrite(GetAs(e, f, events[e].present))

NameOf(f) == DeriveCollectionName(AllFactories[f].T, AllFactories[f])

\* C5: by the time an event is flushed, every producer that holds objects
\* and whose name is not excluded and, when the include set is not empty,
\* is included, has its data vector in the store and a physical column
\* whose row for this event holds these objects; with an empty include set
\* this is so for every exclude set. Names outside have no column.
C5_IncludeExcludeMaterialized ==
    \A t \in Threads :
        pc[t] = "swap" =>
            \A f \in 1..NFac :
                (/\ NumObjects(ev[t], f, events[ev[t]].present) # 0
                 /\ AllFactories[f].T # "none"
                 /\ events[ev[t]].bad # f)
                => IF Filtered(NameOf(f))
                   THEN NameOf(f) \notin BranchNames(tree)
                   ELSE /\ \E dv \in Range(store[t]) :
                             dv.name = NameOf(f) /\ dv.data = Pods(ev[t], f)
                        /\ NameOf(f) \in BranchNames(tree)
                        /\ tree.branches[NameOf(f)].rows[tree.entries] = Pods(ev[t], f)

\* C6: a PutPODIODataT call for a name that is excluded, or not included
\* while the include set is not empty, returns "" and leaves the store as
\* it was.
C6_SkipNoSideEffects ==
    [][\A t \in Threads :
        (/\ pc[t] = "loop"
         /\ fi'[t] = fi[t] + 1
         /\ ret'[t] # NotCalled
         /\ AllFactories[fi[t]].T # "none"
         /\ Filtered(NameOf(fi[t])))
        => (ret'[t] = "" /\ store'[t] = store[t])
    ]_vars

\* C7: the name PutPODIODataT derives is the declared type name for an empty
\* tag, the tag for a non-empty tag with runtime type T, the declared type
\* name for a non-empty tag with another runtime type; so Cluster with tag ""
\* gives "Cluster", Cluster with tag "merged" gives "merged", SpecialCluster
\* with tag "merged" and T = Cluster gives "SpecialCluster".
C7_NameResolution ==
    \A t \in Threads :
        (pc[t] \in {"loop", "lock"} /\ fi[t] > 1 /\ ret[t] # NotCalled
            /\ AllFactories[fi[t] - 1].T # "none")
        => LET fac == AllFactories[fi[t] - 1]
           IN  /\ fac.tag = "" => collection_name[t] = fac.objName
               /\ (fac.tag # "" /\ fac.objType = fac.T) => collection_name[t] = fac.tag
               /\ (fac.tag # "" /\ fac.objType # fac.T) => collection_name[t] = fac.objName
               /\ fi[t] - 1 = 1 => collection_name[t] = "Cluster"
               /\ fi[t] - 1 = 2 => collection_name[t] = "merged"
               /\ fi[t] - 1 = 3 => collection_name[t] = "SpecialCluster"

\* PutPODIODataT has just resolved the name of the SpecialCluster producer
\* tagged "merged", after it resolved the two other producers in this event.
C7_Witness ==
    \E t \in Threads :
        /\ pc[t] = "loop"
        /\ fi[t] = 4
        /\ ret[t] = "SpecialCluster"
        /\ collection_name[t] = "SpecialCluster"
        /\ {"Cluster", "merged"} \subseteq StoreNames(store[t])

\* C8: after a PutPODIODataT call that succeeds, the call has returned the
\* resolved name and the one data vector of that name holds, as elements
\* of its own type, exactly the POD data of the objects the producer
\* holds, whatever it held before.
C8_FullReplace ==
    \A t \in Threads :
        (pc[t] \in {"loop", "lock"} /\ fi[t] > 1 /\ ret[t] \notin {NotCalled, "", Thrown})
        => /\ ret[t] = NameOf(fi[t] - 1)
           /\ Cardinality({i \in 1..Len(store[t]) : store[t][i].name = ret[t]}) = 1
           /\ \A dv \in Range(store[t]) :
                dv.name = ret[t] =>
                    /\ dv.holds = dv.className[3]
                    /\ dv.data = [i \in 1..NumObjects(ev[t], fi[t] - 1, events[ev[t]].present)
                                 |-> 100 * ev[t] + 10 * (fi[t] - 1) + i]

\* what one pass of the factory loop makes of a store
RECURSIVE Materialize(_, _, _)
Materialize(e, st, f) ==
    IF f > NFac THEN st
    ELSE Materialize(e,
            IF NumObjects(e, f, events[e].present) # 0
            THEN PutPODIOData(AllFactories[f], GetAs(e, f, events[e].present),
                              events[e].bad = f, st, <<e, 1, NameOf(f)>>).store
            ELSE st,
            f + 1)

Contents(st) ==
    {[name |-> st[i].name, className |-> st[i].className, data |-> st[i].data,
      holds |-> st[i].holds] :
        i \in 1..Len(st)}

\* C9: when Process has run twice or more on an event that carries a store,
\* the event's store has the column names and the content per column that a
\* single pass over the store the event came with produces, without
\* duplicate column.
C9_RederiveIdempotent ==
    \A e \in 1..Len(events) :
        (/\ events[e].es.has
         /\ events[e].visits >= 2
         /\ \A t \in Threads : pc[t] # "idle" => ev[t] # e)
        => LET once == Materialize(e, InputStore(e, events[e].kind), 1)
           IN  /\ Contents(events[e].es.dvs) = Contents(once)
               /\ Len(events[e].es.dvs) = Len(once)
               /\ Cardinality(StoreNames(events[e].es.dvs)) = Len(events[e].es.dvs)

\* Process has returned from its second run on an event with a borrowed
\* store in which two producers were materialized.
C9_Witness ==
    \E e \in 1..Len(events) :
        /\ events[e].es.has
        /\ events[e].visits = 2
        /\ \A t \in Threads : pc[t] = "idle"
        /\ Len(events[e].es.dvs) >= 3
        /\ \A i \in 1..Len(events[e].es.dvs) : events[e].es.dvs[i].data # <<>>

\* C10: when Process is about to return from an event that carries a store,
\* also after a producer's materialization threw, the event's store holds
\* every column it came with and every column materialized in the call,
\* and the local store holds none.
C10_SwapBack ==
    \A t \in Threads :
        (pc[t] = "ret" /\ events[ev[t]].es.has)
        => /\ StoreNames(InputStore(ev[t], events[ev[t]].kind)) \subseteq StoreNames(events[ev[t]].es.dvs)
           /\ \A f \in 1..NFac :
                (/\ NumObjects(ev[t], f, events[ev[t]].present) # 0
                 /\ AllFactories[f].T # "none"
                 /\ ~BailExcluded(NameOf(f))
                 /\ ~BailNotIncluded(NameOf(f)))
                => \E dv \in Range(events[ev[t]].es.dvs) :
                      /\ dv.name = NameOf(f)
                      /\ events[ev[t]].bad # f => dv.data = Pods(ev[t], f)
           /\ store[t] = <<>>

\* Process is about to return from an event with a borrowed store in which
\* one producer threw and another was materialized.
C10_Witness ==
    \E t \in Threads :
        /\ pc[t] = "ret"
        /\ events[ev[t]].es.has
        /\ events[ev[t]].bad # 0
        /\ "Cluster" \in StoreNames(events[ev[t]].es.dvs)
        /\ "merged" \in StoreNames(events[ev[t]].es.dvs)

\* PutPODIOData has thrown for a producer in the Process call thread t runs
HasThrown(t) ==
    /\ pc[t] # "idle"
    /\ events[ev[t]].bad # 0
    /\ fi[t] > events[ev[t]].bad
    /\ ~BailExcluded(NameOf(events[ev[t]].bad))
    /\ ~BailNotIncluded(NameOf(events[ev[t]].bad))

\* C11: when PutPODIOData has thrown for one producer of an event, Process
\* has, by the time the event is flushed, gone through the whole loop and
\* materialized every later producer that holds objects, ResetBranches has
\* bound a column to every data vector of the store that is not ignored,
\* and the events tree and the evt_metadata tree have each gained exactly
\* one row for this call as for every call before it.
C11_FailureDoesNotAbort ==
    \A t \in Threads :
        (pc[t] = "swap" /\ HasThrown(t) /\ m_datatree # "nullptr")
        => /\ fi[t] = NFac + 1
           /\ \A f \in (events[ev[t]].bad + 1)..NFac :
                (/\ NumObjects(ev[t], f, events[ev[t]].present) # 0
                 /\ AllFactories[f].T # "none"
                 /\ ~BailExcluded(NameOf(f))
                 /\ ~BailNotIncluded(NameOf(f)))
                => \E dv \in Range(store[t]) :
                      dv.name = NameOf(f) /\ dv.data = Pods(ev[t], f)
           /\ \A dv \in Range(store[t]) :
                ~Ignored(dv.name)
                => /\ dv.name \in BranchNames(tree)
                   /\ tree.branches[dv.name].addr = dv.id
                   /\ dv.name \notin Misread(tree)
                      => tree.branches[dv.name].rows[tree.entries] = dv.data
           /\ tree.entries = ncalls
           /\ evtMDentries = ncalls

\* The second event has been flushed; the conversion of the producer tagged
\* "merged" threw in it and the SpecialCluster producer, which comes later
\* in the loop, has its objects in the row of this event.
C11_Witness ==
    \E t \in Threads :
        /\ pc[t] = "swap"
        /\ HasThrown(t)
        /\ ret[t] = ""
        /\ tree.entries = 2
        /\ evtMDentries = 2
        /\ "SpecialCluster" \in BranchNames(tree)
        /\ tree.branches["SpecialCluster"].rows[2] = Pods(ev[t], 3)
        /\ Pods(ev[t], 3) # <<>>

\* C12: a PutPODIODataT call that throws leaves the store with the data
\* vectors it held before the call, and ResetBranches creates no column
\* of the failed producer's name in an event that came without a data
\* vector of that name.
C12_FailedContributesNothing ==
    [][\A t \in Threads :
        /\ (pc[t] = "loop" /\ fi'[t] = fi[t] + 1 /\ ret'[t] = Thrown)
              => /\ StoreNames(store'[t]) = StoreNames(store[t])
                 /\ Len(store'[t]) = Len(store[t])
        /\ (pc[t] = "reset" /\ pc'[t] = "fill" /\ HasThrown(t)
                /\ events[ev[t]].kind = "none")
              => NameOf(events[ev[t]].bad) \notin BranchNames(tree') \ BranchNames(tree)
    ]_vars

\* the positions of Process between the start of ResetBranches and the
\* release of the mutex
WritePhase == {"reset", "fill", "swap", "ret"}

\* C13: with Process running on several threads, at most one thread is
\* between the start of ResetBranches and the end of the swap back, that
\* thread holds the mutex, and a thread that builds its store or
\* materializes producers does not hold it.
C13_WritePhaseExclusive ==
    /\ \A t, u \in Threads :
            (pc[t] \in WritePhase /\ pc[u] \in WritePhase) => t = u
    /\ \A t \in Threads :
            /\ pc[t] \in WritePhase => m_mutex = t
            /\ pc[t] \in {"idle", "loop", "lock", "destroy"} => m_mutex # t

\* One thread holds the mutex and is about to flush its event while the
\* other, having materialized the producers of another event outside the
\* lock, waits for the mutex.
C13_Witness ==
    \E t, u \in Threads :
        /\ t # u
        /\ pc[t] = "fill"
        /\ pc[u] = "lock"
        /\ ev[t] # ev[u]
        /\ store[t] # <<>>
        /\ store[u] # <<>>
        /\ m_mutex = t

\* the IDs the registry has given out, by name
RegistryIDs(idt) == [n \in Range(idt) |-> CollectionID(idt, n)]

\* C14: no name is twice in m_collectionIDtable; a step only appends to
\* the table, in the order in which ResetBranches meets the names it has
\* not seen, so every name keeps the ID it got; a ResetBranches call on a
\* store whose written names are all registered leaves the table as it is.
C14_RegistryStable ==
    [][/\ Len(m_collectionIDtable') >= Len(m_collectionIDtable)
       /\ SubSeq(m_collectionIDtable', 1, Len(m_collectionIDtable)) = m_collectionIDtable
       /\ Cardinality(Range(m_collectionIDtable')) = Len(m_collectionIDtable')
       /\ \A n \in Range(m_collectionIDtable) :
            RegistryIDs(m_collectionIDtable')[n] = RegistryIDs(m_collectionIDtable)[n]
       /\ \A t \in Threads :
            (pc[t] = "reset" /\ pc'[t] = "fill")
            => LET fresh == [i \in 1..(Len(m_collectionIDtable') - Len(m_collectionIDtable))
                               |-> m_collectionIDtable'[Len(m_collectionIDtable) + i]]
                   seen == {i \in UsesDataTree(store[t]) :
                               store[t][i].name \notin Range(m_collectionIDtable)}
               IN  /\ Range(fresh) = {store[t][i].name : i \in seen}
                   /\ \A i, j \in seen :
                        i < j => CollectionID(m_collectionIDtable', store[t][i].name)
                                    < CollectionID(m_collectionIDtable', store[t][j].name)
                   /\ seen = {} => m_collectionIDtable' = m_collectionIDtable
    ]_vars

\* ResetBranches has run on the second event: its store holds a name that
\* was registered by the first event and has kept ID 1, and a name seen
\* for the first time, which got the next ID.
C14_Witness ==
    \E t \in Threads :
        /\ pc[t] = "fill"
        /\ tree.entries = 1
        /\ Len(m_collectionIDtable) >= 2
        /\ \E i, j \in 1..Len(store[t]) :
             /\ {store[t][i].name, store[t][j].name} \subseteq Range(m_collectionIDtable)
             /\ CollectionID(m_collectionIDtable, store[t][i].name) = 1
             /\ Len(tree.branches[store[t][i].name].rows) = 1
             /\ tree.branches[store[t][i].name].rows[1] # <<>>
             /\ CollectionID(m_collectionIDtable, store[t][j].name) = Len(m_collectionIDtable)
             /\ tree.branches[store[t][j].name].rows = <<<<>>>>

\* the records of m_collectionInfo that carry the ID of name n
RecordsOf(n) ==
    {i \in 1..Len(m_collectionInfo) :
        m_collectionInfo[i][1] = CollectionID(m_collectionIDtable, n)}

\* C15: after Finish, m_collectionInfo holds for every branch of the events
\* tree exactly one record, made of the ID the name has in
\* m_collectionIDtable, the collection type of the branch's element type
\* and false; it holds no other record, and none for a registered name
\* without branch.
C15_CollectionMetadata ==
    m_datatree = "nullptr" =>
        /\ Len(m_collectionInfo) = Cardinality(BranchNames(tree))
        /\ \A n \in BranchNames(tree) :
              /\ n \in Range(m_collectionIDtable)
              /\ Cardinality(RecordsOf(n)) = 1
              /\ \A i \in RecordsOf(n) :
                    m_collectionInfo[i]
                        = <<CollectionID(m_collectionIDtable, n),
                            <<tree.branches[n].className[3], "Collection">>,
                            FALSE>>
        /\ \A n \in Range(m_collectionIDtable) \ BranchNames(tree) : RecordsOf(n) = {}

\* Finish has run on a job that wrote a column of clusters and a column of
\* calorimeter hits.
C15_Witness ==
    /\ m_datatree = "nullptr"
    /\ auxentries.metadata = 1
    /\ Len(m_collectionInfo) >= 2
    /\ \E i, j \in 1..Len(m_collectionInfo) :
         /\ m_collectionInfo[i][2] = <<"edm4hep::Cluster", "Collection">>
         /\ m_collectionInfo[j][2] = <<"edm4hep::CalorimeterHit", "Collection">>

\* C16: once Finish has run, no step flushes a row to the events tree or to
\* one of the other trees, creates a branch, rebinds a branch address or
\* registers a name, and no step brings the process down, whatever the
\* store of the event a later Process call works on holds.
C16_ClosedIsFinal ==
    [][m_datatree = "nullptr" =>
        /\ tree' = tree
        /\ evtMDentries' = evtMDentries
        /\ auxentries' = auxentries
        /\ m_collection_branches' = m_collection_branches
        /\ m_collectionIDtable' = m_collectionIDtable
        /\ ~crashed'
    ]_vars

\* the class name a data vector of producer f is declared with
DeclaredClass(f) == VectorOf(ValueTypeName(AllFactories[f].T))

\* C17: a PutPODIODataT call that finds in the store a data vector of its
\* name with another class name than its own fails: it throws and leaves
\* the store as it was; and the flush writes through no branch a data
\* vector whose class name is not the one the branch was created with.
C17_SchemaMismatchSurfaced ==
    [][\A t \in Threads :
        /\ (/\ pc[t] = "loop"
            /\ fi'[t] = fi[t] + 1
            /\ ret'[t] # NotCalled
            /\ AllFactories[fi[t]].T # "none"
            /\ ~BailExcluded(NameOf(fi[t]))
            /\ ~BailNotIncluded(NameOf(fi[t]))
            /\ \E dv \in Range(store[t]) :
                  dv.name = NameOf(fi[t]) /\ dv.className # DeclaredClass(fi[t]))
           => (ret'[t] = Thrown /\ store'[t] = store[t])
        /\ (pc[t] = "fill" /\ pc'[t] = "swap" /\ tree'.entries # tree.entries)
           => \A dv \in Range(store[t]) :
                (dv.name \in BranchNames(tree) /\ tree.branches[dv.name].addr = dv.id)
                => /\ tree.branches[dv.name].className = dv.className
                   /\ tree'.branches[dv.name].className = tree.branches[dv.name].className
    ]_vars

\* the step is the one Finish takes
FinishStep == m_datatree # "nullptr" /\ m_datatree' = "nullptr"

\* C18 as stated: when Finish ends a job of N Process calls, the events
\* tree and each of the trees evt_metadata, metadata, col_metadata and
\* run_metadata have N entries.
C18_AllTablesNRows ==
    [][FinishStep =>
        /\ tree'.entries = ncalls
        /\ evtMDentries' = ncalls
        /\ auxentries'.metadata = ncalls
        /\ auxentries'.col_metadata = ncalls
        /\ auxentries'.run_metadata = ncalls
    ]_vars

\* C18 amended: when Finish ends a job of N Process calls, the events tree
\* and the evt_metadata tree have N entries each, and the trees metadata,
\* col_metadata and run_metadata have one entry each.
C18_TableRowCounts ==
    [][FinishStep =>
        /\ tree'.entries = ncalls
        /\ evtMDentries' = ncalls
        /\ auxentries'.metadata = 1
        /\ auxentries'.col_metadata = 1
        /\ auxentries'.run_metadata = 1
    ]_vars

\* Finish has ended a job of two Process calls.
C18_Witness ==
    /\ m_datatree = "nullptr"
    /\ ncalls = 2
    /\ \A t \in Threads : pc[t] = "idle"
    /\ tree.entries = 2
    /\ evtMDentries = 2
    /\ auxentries = [metadata |-> 1, col_metadata |-> 1, run_metadata |-> 1]

\* no two data vectors of the store have the same name
UniqueNames(st) == Cardinality(StoreNames(st)) = Len(st)

\* C19: no store, local or carried by an event, holds two data vectors of
\* one name; a PutPODIODataT call leaves every data vector the store held
\* in its place with its name and its class name, and a data vector it
\* adds has the class name of the calling producer's type; a data vector
\* keeps its class name for as long as it lives, also across the swaps.
C19_StoreUniqueness ==
    [][/\ \A t \in Threads :
            /\ UniqueNames(store'[t])
            /\ (pc[t] = "loop" /\ fi'[t] = fi[t] + 1)
               => /\ Len(store'[t]) \in {Len(store[t]), Len(store[t]) + 1}
                  /\ \A i \in 1..Len(store[t]) :
                        /\ store'[t][i].name = store[t][i].name
                        /\ store'[t][i].className = store[t][i].className
                        /\ store'[t][i].id = store[t][i].id
                  /\ \A i \in (Len(store[t]) + 1)..Len(store'[t]) :
                        /\ store'[t][i].name = NameOf(fi[t])
                        /\ store'[t][i].className = DeclaredClass(fi[t])
       /\ \A e \in 1..Len(events') : UniqueNames(events'[e].es.dvs)
       /\ \A dv \in LiveVectors :
            \A dw \in LiveVectors' :
                dv.id = dw.id => (dw.name = dv.name /\ dw.className = dv.className)
    ]_vars

\* On the second visit of an event that came with a collection of hits
\* named "merged", the cluster producer tagged "merged" has put its data
\* into that data vector, after the producer of "Cluster" put its own into
\* the one made on the first visit.
C19_Witness ==
    \E t \in Threads :
        /\ pc[t] = "loop"
        /\ fi[t] = 3
        /\ ret[t] = "merged"
        /\ events[ev[t]].kind = "hits"
        /\ events[ev[t]].visits = 2
        /\ Len(store[t]) = 2
        /\ \E dv \in Range(store[t]) :
             /\ dv.name = "merged"
             /\ dv.className = VectorOf(ValueTypeName("Hit"))
             /\ dv.data = Pods(ev[t], 2)
        /\ \E dv \in Range(store[t]) : dv.name = "Cluster" /\ dv.id[2] = 1

\* C20: the ResetBranches call of an event, with the CreateBranch calls it
\* makes, leaves the number of entries of the events tree as it is and
\* leaves every branch the tree had with the rows and the class name it
\* had; the rows it writes are the placeholder rows of the branches it
\* creates.
C20_CreateBranchFrame ==
    [][\A t \in Threads :
        (pc[t] = "reset" /\ pc'[t] = "fill")
        => /\ tree'.entries = tree.entries
           /\ \A n \in BranchNames(tree) :
                /\ n \in BranchNames(tree')
                /\ tree'.branches[n].rows = tree.branches[n].rows
                /\ tree'.branches[n].className = tree.branches[n].className
           /\ \A n \in BranchNames(tree') \ BranchNames(tree) :
                Len(tree'.branches[n].rows) = tree.entries
    ]_vars

\* ResetBranches has created a branch in the second event, next to a branch
\* that holds the row of the first event.
C20_Witness ==
    \E t \in Threads :
        /\ pc[t] = "fill"
        /\ tree.entries = 1
        /\ \E dv \in Range(store[t]) :
             /\ dv.name \in BranchNames(tree)
             /\ dv.data # <<>>
             /\ dv.id[1] = 2
             /\ tree.branches[dv.name].addr = dv.id
             /\ tree.branches[dv.name].rows = Empties(1)
        /\ \E n \in BranchNames(tree) :
             /\ Len(tree.branches[n].rows) = 1
             /\ tree.branches[n].rows[1] # <<>>

\* C21: in every state, so after every ResetBranches call, the names in
\* m_collectionIDtable are the keys of m_collection_branches and the
\* branches of the events tree; and when Finish runs, every name of the
\* table has its entry in m_collection_branches, so that the skip of a
\* registered name without branch is not taken.
C21_RegistryMatchesColumns ==
    [][/\ Range(m_collectionIDtable') = DOMAIN m_collection_branches'
       /\ Range(m_collectionIDtable') = BranchNames(tree')
       /\ FinishStep =>
            \A n \in Range(m_collectionIDtable) : n \in DOMAIN m_collection_branches
    ]_vars

\* Finish has run on a job in which ResetBranches registered a name and met,
\* in an event's store, a data vector the filters exclude.
C21_Witness ==
    /\ m_datatree = "nullptr"
    /\ auxentries.metadata = 1
    /\ Len(m_collectionIDtable) >= 1
    /\ Len(m_collectionInfo) = Len(m_collectionIDtable)
    /\ \E e \in 1..Len(events) :
         \E dv \in Range(events[e].es.dvs) :
            Ignored(dv.name) /\ dv.name \notin Range(m_collectionIDtable)
====
